---- MODULE Spec2Model ----
(***************************************************************************)
(* Gray-Scott reaction-diffusion on a toroidal grid (src/src/main.rs) and  *)
(* the matrix visualizer's draw loop                                       *)
(* (src/src/visualizer/matrix_visualizer.rs).                              *)
(*                                                                         *)
(* Matrix<f32> values are modelled in fixed point: a cell holding the      *)
(* integer x stands for the real x / Scale.                                *)
(***************************************************************************)
EXTENDS Integers, Naturals, Sequences, FiniteSets, TLC

\* ------------------------------------------------------------------ bounds
\* largest number of rows / columns of a grid handed to roll
MaxDim == 3
\* largest base value of the grids handed to roll
MaxBase == 1
\* side of the square simulation grid (SPACE_GRID_SIZE, 256 in the source)
GridSize == 3
\* side of the seeded square (SQUARE_SIZE, 20 in the source)
SquareSize == 2
\* fixed-point resolution: the integer x in a cell stands for x / Scale
Scale == 12
\* frames drawn before the model stops following the loop
MaxFrames == 2
\* iterations of draw_loop before the model stops following it
MaxIter == 2
\* most events one poll_events call hands to the closure
MaxEvents == 2
\* batches the Mode B stepper publishes before the model stops following it
MaxGeneration == 4

\* ------------------------------------------------------------ parameters
\* const DX: f32 = 0.01, as 1 / DX
InvDX == 100
\* const DT: u32 = 1
DT == 1
\* const VISUALIZATION_STEP: usize = 8
VISUALIZATION_STEP == 8
\* the model parameters are multiples of 1 / ParamDen
ParamDen == 10 ^ 5
\* const DU: f32 = 2e-5, const DV: f32 = 1e-5, F = 0.04, K = 0.06
DU == 2
DV == 1
F == 4000
K == 6000

\* ------------------------------------------------------------ state
VARIABLES
    g,        \* roll: the grid the caller started from
    a,        \* roll: the argument `a` of the current call
    shift,    \* roll: the argument `shift`
    axis,     \* roll: the argument `axis` (TRUE: columns, FALSE: rows)
    rotated,  \* roll: what the last call returned (ok = FALSE: it panicked)
    rollPc,   \* roll: "ready" | "returned" | "panicked"
    nRolls,   \* roll: number of calls made in succession
    lap,      \* laplacian: the grid computed from g (ok = FALSE: not computed)
    u,        \* draw_triangle: the field u
    v,        \* draw_triangle: the field v
    pc,       \* draw_triangle: "while" | "for" | "draw" | "poll" | "done" | "panicked"
    stepIdx,  \* draw_triangle: iterations of the inner for loop done
    closed,   \* draw_triangle: the local `closed`
    nsteps,   \* history: reaction-diffusion steps applied so far
    shown,    \* history: nsteps at each call of make_texture_image(&u)
    state,         \* draw_loop: the argument `state`, (state.0, state.1)
    window_status, \* draw_loop: the local `window_status`
    loopPc,        \* draw_loop: "check" | "update" | "draw" | "poll" | "ok" | "err"
    calls,         \* history: the calls draw_loop has made, with their results
    image,         \* draw: the image make_texture_image returned last
    polled,        \* hadling_event: the events its last call polled
    lock,          \* Mode B: who holds the lock: "none" | "stepper" | "consumer"
    shared,        \* Mode B: the guarded pair, each field tagged with its generation
    stepperPc,     \* Mode B: "acquire" | "write_u" | "write_v" | "release"
    generation,    \* Mode B: batches the stepper has computed
    consumerPc,    \* Mode B: "acquire" | "read_u" | "read_v" | "release" | "render"
    snapshot       \* Mode B: the pair the consumer has read

rollVars == <<g, a, shift, axis, rotated, rollPc, nRolls, lap>>
mainVars == <<u, v, pc, stepIdx, closed, nsteps, shown>>
loopVars == <<state, window_status, loopPc, calls, image, polled>>
modeBVars == <<lock, shared, stepperPc, generation, consumerPc, snapshot>>
vars == <<g, a, shift, axis, rotated, rollPc, nRolls, lap,
          u, v, pc, stepIdx, closed, nsteps, shown,
          state, window_status, loopPc, calls, image, polled,
          lock, shared, stepperPc, generation, consumerPc, snapshot>>

\* ------------------------------------------------------------ Matrix<T>
\* the content of a cell of Array2::uninitialized that was never assigned
Uninit == -1000

\* a rows x cols matrix; cell[<<i, j>>] is row i, column j (row-major)
Matrix(rows, cols, cell) == [rows |-> rows, cols |-> cols, cell |-> cell]

\* the indices along an axis of length n
Ix(n) == 0 .. n - 1

\* unsafe { Array2::uninitialized(a.dim()) }
Uninitialized(rows, cols) ==
    Matrix(rows, cols, [p \in Ix(rows) \X Ix(cols) |-> Uninit])

\* the result of an operation that panicked
Panicked == [ok |-> FALSE, grid |-> Uninitialized(0, 0)]

Returned(m) == [ok |-> TRUE, grid |-> m]

\* ndarray: a negative slice index counts from the end of the axis
AbsIndex(len, index) == IF index < 0 THEN len + index ELSE index

\* a plausible slip: bounds clamped to the axis as Python slices are
DoSliceClamped(len, start, end) ==
    LET clamp(x) == IF x < 0 THEN 0 ELSE IF x > len THEN len ELSE x
        s  == clamp(AbsIndex(len, start))
        e0 == IF end = <<>> THEN len ELSE clamp(AbsIndex(len, end[1]))
        e  == IF e0 < s THEN s ELSE e0
    IN  [ok |-> TRUE, lo |-> s, hi |-> e]

\* ndarray do_slice with step 1: the half-open range [lo, hi) of an axis of
\* length len selected by start.., ..end or start..end (end = <<>> : open).
\* An end before the start gives the empty range; a bound outside the axis
\* fails the bounds assertion (a negative bound is a huge usize).
DoSlice(len, start, end) ==
    LET s  == AbsIndex(len, start)
        e0 == IF end = <<>> THEN len ELSE AbsIndex(len, end[1])
        e  == IF e0 < s THEN s ELSE e0
    IN  IF s < 0 \/ e0 < 0 \/ s > len \/ e > len
        THEN [ok |-> FALSE, lo |-> 0, hi |-> 0]
        ELSE [ok |-> TRUE, lo |-> s, hi |-> e]

\* dst.slice_mut(s![.., to]).assign(&src.slice(s![.., from])) when ax, and
\* the same on rows otherwise.  assign copies cell by cell when the two
\* views have the same shape, broadcasts a source of length 1 along the
\* axis, and panics when the source cannot be broadcast.
SliceAssign(dst, src, ax, to, from) ==
    IF ~to.ok \/ ~from.ok THEN Panicked
    ELSE
      LET kl == to.hi - to.lo
          kr == from.hi - from.lo
          along(p) == IF ax THEN p[2] ELSE p[1]
          srcAt(p, k) == IF ax THEN src.cell[<<p[1], k>>] ELSE src.cell[<<k, p[2]>>]
          pick(p) == IF kl = kr THEN srcAt(p, from.lo + (along(p) - to.lo))
                     ELSE srcAt(p, from.lo)
      IN  IF kl # kr /\ kr # 1 THEN Panicked
          ELSE Returned([dst EXCEPT !.cell =
                 [p \in DOMAIN dst.cell |->
                    IF along(p) >= to.lo /\ along(p) < to.hi
                    THEN pick(p) ELSE dst.cell[p]]])

\* a plausible slip: the first assignment reads the head of the axis
\* (..shift) where the code reads its tail (-shift..)
RollHead(m, s, ax) ==
    LET n == IF ax THEN m.cols ELSE m.rows
        rot0 == Uninitialized(m.rows, m.cols)
        st1 == SliceAssign(rot0, m, ax, DoSlice(n, 0, <<s>>), DoSlice(n, 0, <<s>>))
    IN  IF ~st1.ok THEN Panicked
        ELSE SliceAssign(st1.grid, m, ax, DoSlice(n, s, <<>>), DoSlice(n, 0, <<-s>>))

\* a plausible slip: the second assignment is left out, so the cells from
\* shift on keep whatever the uninitialized allocation held
RollFirstHalf(m, s, ax) ==
    LET n == IF ax THEN m.cols ELSE m.rows
        rot0 == Uninitialized(m.rows, m.cols)
    IN  SliceAssign(rot0, m, ax, DoSlice(n, 0, <<s>>), DoSlice(n, -s, <<>>))

\* fn roll(a, shift, axis)
Roll(m, s, ax) ==
    LET n == IF ax THEN m.cols ELSE m.rows
        rot0 == Uninitialized(m.rows, m.cols)
        st1 == SliceAssign(rot0, m, ax, DoSlice(n, 0, <<s>>), DoSlice(n, -s, <<>>))
    IN  IF ~st1.ok THEN Panicked
        ELSE SliceAssign(st1.grid, m, ax, DoSlice(n, s, <<>>), DoSlice(n, 0, <<-s>>))

\* ------------------------------------------------------------ roll, called
Dims == 1 .. MaxDim
Shifts == (0 - (MaxDim + 1)) .. (MaxDim + 1)

\* the grids handed to roll: every cell different, or every cell the same
InputGrids ==
    UNION { { Matrix(r, c, [i \in Ix(r), j \in Ix(c) |-> b + i * c + j]),
              Matrix(r, c, [i \in Ix(r), j \in Ix(c) |-> b]) } :
            <<r, c, b>> \in Dims \X Dims \X (0 .. MaxBase) }

AxisLen(m, ax) == IF ax THEN m.cols ELSE m.rows

\* the part of the state draw_triangle does not use
MainIdle ==
    /\ u = Uninitialized(0, 0)
    /\ v = Uninitialized(0, 0)
    /\ pc = "idle"
    /\ stepIdx = 0
    /\ closed = FALSE
    /\ nsteps = 0
    /\ shown = <<>>

\* no image has been made yet
NoImage == [data |-> <<>>, width |-> 0, height |-> 0]

\* the part of the state draw_loop does not use
LoopIdle ==
    /\ state = <<Uninitialized(0, 0), Uninitialized(0, 0)>>
    /\ window_status = "Open"
    /\ loopPc = "idle"
    /\ calls = <<>>
    /\ image = NoImage
    /\ polled = <<>>

\* the part of the state Mode B does not use
ModeBIdle ==
    /\ lock = "none"
    /\ shared = [u |-> 0, v |-> 0]
    /\ stepperPc = "idle"
    /\ generation = 0
    /\ consumerPc = "idle"
    /\ snapshot = [u |-> 0, v |-> 0]

\* the part of the state a caller of roll does not use
RollIdle ==
    /\ g = Uninitialized(0, 0)
    /\ a = Uninitialized(0, 0)
    /\ shift = 0
    /\ axis = FALSE
    /\ rotated = Panicked
    /\ rollPc = "idle"
    /\ nRolls = 0
    /\ lap = [ok |-> FALSE, cell |-> <<>>]

RollInit ==
    /\ MainIdle
    /\ LoopIdle
    /\ ModeBIdle
    /\ g \in InputGrids
    /\ a = g
    /\ shift \in Shifts
    /\ axis \in BOOLEAN
    /\ rotated = Panicked
    /\ rollPc = "ready"
    /\ nRolls = 0
    /\ lap = [ok |-> FALSE, cell |-> <<>>]

\* let rotated = roll(&a, shift, axis);
RollCall ==
    /\ rollPc = "ready"
    /\ rotated' = Roll(a, shift, axis)
    /\ rollPc' = IF rotated'.ok THEN "returned" ELSE "panicked"
    /\ nRolls' = nRolls + 1
    /\ UNCHANGED <<g, a, shift, axis, lap>>
    /\ UNCHANGED <<mainVars, loopVars, modeBVars>>

\* the caller hands the result to the next call: roll(&roll(&a, ..), ..)
RollAgain ==
    /\ rollPc = "returned"
    /\ nRolls < MaxDim
    /\ a' = rotated.grid
    /\ rollPc' = "ready"
    /\ UNCHANGED <<g, shift, axis, rotated, nRolls, lap>>
    /\ UNCHANGED <<mainVars, loopVars, modeBVars>>

RollNext == RollCall \/ RollAgain

SpecRoll == RollInit /\ [][RollNext]_vars

\* ------------------------------------------------------------ roll, claims
Abs(x) == IF x < 0 THEN 0 - x ELSE x

\* where roll by s along ax is claimed to put the cell at p
Moved(m, p, s, ax) ==
    IF ax THEN <<p[1], (p[2] + s) % m.cols>> ELSE <<(p[1] + s) % m.rows, p[2]>>

\* C6: for 0 < |shift| < n, roll(a, shift, axis) returns a new grid of the
\* dimensions of a in which the value at index i along the axis is found at
\* index (i + shift) mod n, the other coordinate unchanged; every cell of
\* the result is assigned and a is left as it was.
C6_RollShiftsByOffset ==
    (nRolls = 1 /\ rollPc # "ready" /\ shift # 0 /\ Abs(shift) < AxisLen(a, axis)) =>
        /\ rollPc = "returned"
        /\ rotated.grid.rows = a.rows
        /\ rotated.grid.cols = a.cols
        /\ DOMAIN rotated.grid.cell = DOMAIN a.cell
        /\ \A p \in DOMAIN a.cell :
              rotated.grid.cell[Moved(a, p, shift, axis)] = a.cell[p]
        /\ \A p \in DOMAIN rotated.grid.cell : rotated.grid.cell[p] # Uninit
        /\ a = g

\* a roll by -1 along an axis of length 3 has returned and moved something
C6_Witness ==
    /\ nRolls = 1 /\ rollPc = "returned" /\ shift = -1
    /\ AxisLen(a, axis) = 3 /\ rotated.grid # a

\* C7: on an axis of length n >= 2, n successive rolls by 1 (or by -1) return
\* the grid the caller started from, cell for cell, and none of them fails.
C7_FullCycleIdentity ==
    (shift \in {1, -1} /\ AxisLen(g, axis) >= 2) =>
        /\ rollPc # "panicked"
        /\ (rollPc = "returned" /\ nRolls = AxisLen(g, axis)) => rotated.grid = g

\* three rolls by -1 along an axis of length 3 of a grid of distinct cells
C7_Witness ==
    /\ shift = -1 /\ AxisLen(g, axis) = 3 /\ nRolls = 3 /\ rollPc = "returned"
    /\ g.cell[<<0, 0>>] # g.cell[<<g.rows - 1, g.cols - 1>>]
    /\ a # g /\ rotated.grid = g

\* C8: for every grid with both dimensions at least 2 and every offset of
\* magnitude below the axis length (positive, negative or zero), roll returns
\* a grid and never fails.
C8_RollTotal ==
    (nRolls = 1 /\ rollPc # "ready" /\ g.rows >= 2 /\ g.cols >= 2
        /\ Abs(shift) < AxisLen(g, axis)) => rollPc = "returned"

\* C9: a roll whose offset magnitude exceeds the axis length is rejected at
\* the call: it panics and returns no grid.
C9_OversizedShiftRejected ==
    (rollPc # "ready" /\ Abs(shift) > AxisLen(a, axis)) =>
        (rollPc = "panicked" /\ ~rotated.ok)

\* a roll by -3 along an axis of length 2 of a 2 x 2 grid or larger panicked
C9_Witness ==
    /\ rollPc = "panicked" /\ shift = -3 /\ AxisLen(a, axis) = 2
    /\ a.rows >= 2 /\ a.cols >= 2 /\ nRolls = 1

\* ------------------------------------------------------------ Gray-Scott
\* weight of one stored unit (1 / Scale) in the units of the exact step
\* result, 1 / (ParamDen * Scale^3)
Fine == ParamDen * Scale * Scale

\* an f32 store of an exact value: the nearest representable value
Store(x) == (x + Fine \div 2) \div Fine

\* a plausible slip: the centre is subtracted three times, not four
LaplacianThree(f) ==
    LET down  == Roll(f, 1, FALSE).grid
        up    == Roll(f, -1, FALSE).grid
        right == Roll(f, 1, TRUE).grid
        left  == Roll(f, -1, TRUE).grid
    IN  [p \in DOMAIN f.cell |->
            (down.cell[p] + up.cell[p] + right.cell[p] + left.cell[p]
              - f.cell[p] * 3) * (InvDX * InvDX)]

\* (roll(&f, 1, false) + roll(&f, -1, false) + roll(&f, 1, true)
\*   + roll(&f, -1, true) - &f * 4.0) / (DX * DX), in units of 1 / Scale
Laplacian(f) ==
    LET down  == Roll(f, 1, FALSE).grid
        up    == Roll(f, -1, FALSE).grid
        right == Roll(f, 1, TRUE).grid
        left  == Roll(f, -1, TRUE).grid
    IN  [p \in DOMAIN f.cell |->
            (down.cell[p] + up.cell[p] + right.cell[p] + left.cell[p]
              - f.cell[p] * 4) * (InvDX * InvDX)]

\* the four rolls of a step return (none of them panics)
RollsOk(f) ==
    /\ Roll(f, 1, FALSE).ok /\ Roll(f, -1, FALSE).ok
    /\ Roll(f, 1, TRUE).ok /\ Roll(f, -1, TRUE).ok

\* ------------------------------------------------------------ the laplacian, called
\* let laplacian = (roll(&g, 1, false) + ... - &g * 4.0) / (DX * DX), on the
\* grids handed to roll; a roll that panics leaves no laplacian
LaplacianCall ==
    /\ rollPc = "ready"
    /\ nRolls = 0
    /\ ~lap.ok
    /\ RollsOk(g)
    /\ lap' = [ok |-> TRUE, cell |-> Laplacian(g)]
    /\ UNCHANGED <<g, a, shift, axis, rotated, rollPc, nRolls>>
    /\ UNCHANGED <<mainVars, loopVars, modeBVars>>

SpecLaplacian == RollInit /\ [][LaplacianCall]_vars

\* every cell of m holds the same value
Uniform(m) == \A p, q \in DOMAIN m.cell : m.cell[p] = m.cell[q]

\* C11: the laplacian of a grid of at least 2 x 2 cells that all hold the
\* same value is zero in every cell.
C11_LaplacianOfUniformIsZero ==
    (lap.ok /\ Uniform(g) /\ g.rows >= 2 /\ g.cols >= 2) =>
        /\ DOMAIN lap.cell = DOMAIN g.cell
        /\ \A p \in DOMAIN lap.cell : lap.cell[p] = 0

\* the laplacian of a 2 x 3 grid whose cells all hold 1 has been computed
C11_Witness ==
    /\ lap.ok /\ Uniform(g) /\ g.rows = 2 /\ g.cols = 3
    /\ g.cell[<<0, 0>>] = 1
    /\ \A p \in DOMAIN lap.cell : lap.cell[p] = 0

\* (laplacian_u * DU) - (&u * &v * &v) + F * (1.0 - &u), exact
Dudt(uu, vv, lapU) ==
    [p \in DOMAIN uu.cell |->
        lapU[p] * DU * Scale * Scale
          - uu.cell[p] * vv.cell[p] * vv.cell[p] * ParamDen
          + F * (Scale - uu.cell[p]) * Scale * Scale]

\* a plausible slip: the kill term reads u, not v
DvdtKillsU(uu, vv, lapV) ==
    [p \in DOMAIN vv.cell |->
        lapV[p] * DV * Scale * Scale
          + uu.cell[p] * vv.cell[p] * vv.cell[p] * ParamDen
          - (F + K) * uu.cell[p] * Scale * Scale]

\* (laplacian_v * DV) + (&u * &v * &v) - (F + K) * &v, exact
Dvdt(uu, vv, lapV) ==
    [p \in DOMAIN vv.cell |->
        lapV[p] * DV * Scale * Scale
          + uu.cell[p] * vv.cell[p] * vv.cell[p] * ParamDen
          - (F + K) * vv.cell[p] * Scale * Scale]

\* field + (DT as f32 * ddt), stored
Euler(field, ddt) ==
    [field EXCEPT !.cell =
        [p \in DOMAIN field.cell |-> Store(field.cell[p] * Fine + DT * ddt[p])]]

\* a plausible slip: dvdt is evaluated after u was updated, so the product
\* term of v reads the new u
RDStepAliased(uu, vv) ==
    LET laplacian_u == Laplacian(uu)
        laplacian_v == Laplacian(vv)
        dudt == Dudt(uu, vv, laplacian_u)
        u1 == Euler(uu, dudt)
        dvdt == Dvdt(u1, vv, laplacian_v)
    IN  [u |-> u1, v |-> Euler(vv, dvdt), dudt |-> dudt, dvdt |-> dvdt]

\* one iteration of the inner loop of draw_triangle: the new u and v, and
\* the exact dudt and dvdt they were computed from
RDStep(uu, vv) ==
    LET laplacian_u == Laplacian(uu)
        laplacian_v == Laplacian(vv)
        dudt == Dudt(uu, vv, laplacian_u)
        dvdt == Dvdt(uu, vv, laplacian_v)
    IN  [u |-> Euler(uu, dudt), v |-> Euler(vv, dvdt), dudt |-> dudt, dvdt |-> dvdt]

\* ------------------------------------------------------------ make_matrix
\* the rows and columns of the seeded square
SquareRange ==
    { x \in 0 .. GridSize - 1 :
        /\ x >= GridSize \div 2 - SquareSize \div 2
        /\ x < GridSize \div 2 + SquareSize \div 2 }

\* Range::new(0., 1.) * 0.1: the stored values in [0, 0.1)
NoiseValues == { x \in 0 .. Scale : 10 * x < Scale }

\* the noise grids the model draws: at most one cell is not zero
NoiseGrids ==
    { Matrix(GridSize, GridSize, [r \in Ix(GridSize), c \in Ix(GridSize) |-> 0]) } \cup
    { Matrix(GridSize, GridSize,
        [r \in Ix(GridSize), c \in Ix(GridSize) |-> IF <<r, c>> = q THEN x ELSE 0]) :
        <<q, x>> \in ((0 .. GridSize - 1) \X (0 .. GridSize - 1)) \X (NoiseValues \ {0}) }

\* ones / zeros, the square filled with 0.5 / 0.25, plus the noise
make_matrix(u_rand, v_rand) ==
    [u |-> Matrix(GridSize, GridSize, [r \in Ix(GridSize), c \in Ix(GridSize) |->
              (IF r \in SquareRange /\ c \in SquareRange THEN Scale \div 2 ELSE Scale)
                + u_rand.cell[<<r, c>>]]),
     v |-> Matrix(GridSize, GridSize, [r \in Ix(GridSize), c \in Ix(GridSize) |->
              (IF r \in SquareRange /\ c \in SquareRange THEN Scale \div 4 ELSE 0)
                + v_rand.cell[<<r, c>>]])]

\* ------------------------------------------------------------ draw_triangle
\* main: let (u, v) = make_matrix(); draw_triangle(u, v) up to `let mut closed`
Init ==
    /\ RollIdle
    /\ LoopIdle
    /\ ModeBIdle
    /\ \E u_rand \in NoiseGrids, v_rand \in NoiseGrids :
          /\ u = make_matrix(u_rand, v_rand).u
          /\ v = make_matrix(u_rand, v_rand).v
    /\ pc = "while"
    /\ stepIdx = 0
    /\ closed = FALSE
    /\ nsteps = 0
    /\ shown = <<>>

\* while !closed {
WhileTest ==
    /\ pc = "while"
    /\ closed \/ Len(shown) < MaxFrames
    /\ pc' = IF closed THEN "done" ELSE "for"
    /\ stepIdx' = 0
    /\ UNCHANGED <<u, v, closed, nsteps, shown>>
    /\ UNCHANGED <<rollVars, loopVars, modeBVars>>

\* for _ in 0..VISUALIZATION_STEP { ... }: one iteration
StepOnce ==
    /\ pc = "for"
    /\ stepIdx < VISUALIZATION_STEP
    /\ IF RollsOk(u) /\ RollsOk(v)
       THEN /\ u' = RDStep(u, v).u
            /\ v' = RDStep(u, v).v
            /\ pc' = pc
       ELSE /\ pc' = "panicked"
            /\ UNCHANGED <<u, v>>
    /\ stepIdx' = stepIdx + 1
    /\ nsteps' = nsteps + 1
    /\ UNCHANGED <<closed, shown>>
    /\ UNCHANGED <<rollVars, loopVars, modeBVars>>

\* a plausible slip: the frame is drawn from inside the batch
BatchAnytime == pc = "for"

\* the inner loop is over
BatchDone == pc = "for" /\ stepIdx = VISUALIZATION_STEP

\* let image = make_texture_image(&u); ... target.finish().unwrap();
\* every unwrap of the texture, the draw and the finish may panic
DrawFrame ==
    /\ BatchDone
    /\ shown' = Append(shown, nsteps)
    /\ \E drawn \in BOOLEAN : pc' = IF drawn THEN "poll" ELSE "panicked"
    /\ UNCHANGED <<u, v, stepIdx, closed, nsteps>>
    /\ UNCHANGED <<rollVars, loopVars, modeBVars>>

\* events_loop.poll_events(|event| ...): closed = true on CloseRequested
PollEvents ==
    /\ pc = "poll"
    /\ \E closeRequested \in BOOLEAN : closed' = (closed \/ closeRequested)
    /\ pc' = "while"
    /\ UNCHANGED <<u, v, stepIdx, nsteps, shown>>
    /\ UNCHANGED <<rollVars, loopVars, modeBVars>>

Next == WhileTest \/ StepOnce \/ DrawFrame \/ PollEvents

Spec == Init /\ [][Next]_vars

\* ------------------------------------------------------------ the step, called
\* draw_triangle(u, v) on fields other than make_matrix's: uniform fields,
\* fields with one cell apart, and fields whose cells all differ
Levels(top) == {0, top \div 4, top \div 2, top}

\* the fields with cell values up to top
StepFields(top) ==
    { Matrix(GridSize, GridSize, [r \in Ix(GridSize), c \in Ix(GridSize) |-> b]) : b \in Levels(top) } \cup
    { Matrix(GridSize, GridSize,
        [r \in Ix(GridSize), c \in Ix(GridSize) |-> IF r = 0 /\ c = 0 THEN x ELSE b]) :
        <<b, x>> \in Levels(top) \X Levels(top) } \cup
    { Matrix(GridSize, GridSize,
        [r \in Ix(GridSize), c \in Ix(GridSize) |-> (b + r * GridSize + c) % (top + 1)]) :
        b \in Levels(top) }

StepInit ==
    /\ RollIdle
    /\ LoopIdle
    /\ ModeBIdle
    /\ u \in StepFields(Scale)
    /\ v \in StepFields(Scale \div 2)
    /\ pc = "while"
    /\ stepIdx = 0
    /\ closed = FALSE
    /\ nsteps = 0
    /\ shown = <<>>

SpecStep == StepInit /\ [][Next]_vars

\* ------------------------------------------------------------ draw_triangle, claims
\* C2: the k-th call of make_texture_image(&u) (k >= 1) reads the field after
\* exactly VISUALIZATION_STEP * k steps: every read follows a complete batch
\* of 8 steps, and between two reads, or after the last one, no batch is
\* left partly read.
C2_FramesShowWholeBatches ==
    /\ \A k \in 1 .. Len(shown) : shown[k] = VISUALIZATION_STEP * k
    /\ pc \in {"poll", "while", "done"} => nsteps = VISUALIZATION_STEP * Len(shown)
    /\ pc = "for" => nsteps = VISUALIZATION_STEP * Len(shown) + stepIdx

\* the second frame has been read, after 16 steps, and the loop went on
C2_Witness ==
    /\ Len(shown) = 2 /\ shown[2] = 2 * VISUALIZATION_STEP /\ pc = "poll"

\* f[x + dx, y + dy], the indices taken modulo the grid size
Wrapped(f, p, dx, dy) == f.cell[<<(p[1] + dx) % f.rows, (p[2] + dy) % f.cols>>]

\* lap(f)[x, y] in units of 1 / Scale
Lap(f, p) ==
    (Wrapped(f, p, 1, 0) + Wrapped(f, p, -1, 0) + Wrapped(f, p, 0, 1)
       + Wrapped(f, p, 0, -1) - 4 * f.cell[p]) * InvDX * InvDX

\* DT * (DU * lap(u) - u * v^2 + F * (1 - u)) at p, exact
ExpectedDu(uu, vv, p) ==
    DT * (DU * Lap(uu, p) * Scale * Scale
           - uu.cell[p] * vv.cell[p] * vv.cell[p] * ParamDen
           + F * (Scale - uu.cell[p]) * Scale * Scale)

\* DT * (DV * lap(v) + u * v^2 - (F + K) * v) at p, exact
ExpectedDv(uu, vv, p) ==
    DT * (DV * Lap(vv, p) * Scale * Scale
           + uu.cell[p] * vv.cell[p] * vv.cell[p] * ParamDen
           - (F + K) * vv.cell[p] * Scale * Scale)

\* C5: one step computes both new fields from the pre-step u and v: in every
\* cell the increments are DT * (DU * lap(u) - u v^2 + F (1 - u)) and
\* DT * (DV * lap(v) + u v^2 - (F + K) v), lap taken with indices modulo the
\* grid size, and the step of the loop stores u plus the first and v plus the
\* second; the increment of v does not read the updated u.
C5_StepFromPreStepFields ==
    [][ /\ \A p \in DOMAIN u.cell :
              /\ DT * RDStep(u, v).dudt[p] = ExpectedDu(u, v, p)
              /\ DT * RDStep(u, v).dvdt[p] = ExpectedDv(u, v, p)
        /\ (nsteps' = nsteps + 1 /\ pc' = "for") =>
              \A p \in DOMAIN u.cell :
                 /\ u'.cell[p] = Store(u.cell[p] * Fine + ExpectedDu(u, v, p))
                 /\ v'.cell[p] = Store(v.cell[p] * Fine + ExpectedDv(u, v, p))
      ]_vars

\* a step has changed u and v in a cell where v is not zero, so that the
\* product term read after the update of u would differ
C5_Witness ==
    /\ nsteps = 2 /\ pc = "for"
    /\ \E p \in DOMAIN u.cell :
          /\ v.cell[p] # 0
          /\ RDStep(u, v).u.cell[p] # u.cell[p]
          /\ RDStep(u, v).dvdt[p] # RDStepAliased(u, v).dvdt[p]

\* every cell of m holds zero
AllZero(m) == \A p \in DOMAIN m.cell : m.cell[p] = 0

\* DT * F * (1 - u) at p, exact: the replenishment term alone
Replenishment(uu, p) == DT * F * (Scale - uu.cell[p]) * Scale * Scale

\* C12 as stated: a step from an all-zero v leaves v all-zero and stores
\* u + DT * F * (1 - u) in every cell of u.
C12_OnlyReplenishment ==
    [][ (AllZero(v) /\ nsteps' = nsteps + 1 /\ pc' = "for") =>
            /\ AllZero(v')
            /\ \A p \in DOMAIN u.cell :
                  u'.cell[p] = Store(u.cell[p] * Fine + Replenishment(u, p))
      ]_vars

\* C12, amended: a step from an all-zero v leaves v all-zero, its increment
\* of v is zero, and its increment of u is DT * (DU * lap(u) + F * (1 - u)):
\* diffusion and replenishment, the reaction term contributing nothing;
\* where u is uniform the increment is DT * F * (1 - u).
C12_DiffusionAndReplenishment ==
    [][ (AllZero(v) /\ nsteps' = nsteps + 1 /\ pc' = "for") =>
            /\ AllZero(v')
            /\ \A p \in DOMAIN u.cell :
                  /\ RDStep(u, v).dvdt[p] = 0
                  /\ DT * RDStep(u, v).dudt[p] =
                        DT * DU * Lap(u, p) * Scale * Scale + Replenishment(u, p)
                  /\ u'.cell[p] =
                        Store(u.cell[p] * Fine
                                + DT * DU * Lap(u, p) * Scale * Scale
                                + Replenishment(u, p))
                  /\ Uniform(u) =>
                        u'.cell[p] = Store(u.cell[p] * Fine + Replenishment(u, p))
      ]_vars

\* one step has been taken and v is all-zero; u is not uniform: cell (0, 0)
\* is below one half, its neighbours (0, 1) and (1, 0) hold more than zero
\* and (1, 1) holds zero, as diffusion out of a single full cell leaves them
C12_Witness ==
    /\ nsteps = 1 /\ pc = "for"
    /\ AllZero(v)
    /\ u.cell[<<0, 0>>] < Scale \div 2
    /\ u.cell[<<0, 1>>] > 0 /\ u.cell[<<1, 0>>] > 0
    /\ u.cell[<<1, 1>>] = 0

\* ------------------------------------------------------------ MatrixVisualizer
\* the events poll_events may hand over: a window CloseRequested, a
\* KeyboardInput of W with the close modifier (ctrl on linux, logo on macos),
\* a KeyboardInput of W without it, and any other event
Events == {"CloseRequested", "ModW", "W", "Other"}

EventBatches == UNION { [1 .. n -> Events] : n \in 0 .. MaxEvents }

\* a plausible slip: an event that does not close sets the status to Open
OnEventResets(status, event) ==
    IF event = "CloseRequested" THEN "Close"
    ELSE IF event = "ModW" THEN "Close"
    ELSE "Open"

\* the closure of hadling_event on one event, given the status so far
OnEvent(status, event) ==
    IF event = "CloseRequested" THEN "Close"
    ELSE IF event = "ModW" THEN "Close"
    ELSE status

RECURSIVE PollEventsFrom(_, _)
\* poll_events: the closure run on every event of the batch, in order
PollEventsFrom(status, events) ==
    IF events = <<>> THEN status
    ELSE PollEventsFrom(OnEvent(status, Head(events)), Tail(events))

\* fn hadling_event(&mut self) -> WindowStatus
hadling_event(events) == PollEventsFrom("Open", events)

\* what update_fn may leave in the state: the same fields, or every cell of
\* both raised by one
UpdateResults(st) ==
    { st,
      << [st[1] EXCEPT !.cell = [p \in DOMAIN st[1].cell |-> st[1].cell[p] + 1]],
         [st[2] EXCEPT !.cell = [p \in DOMAIN st[2].cell |-> st[2].cell[p] + 1]] >> }

\* the cell values state.0 may hold, in units of 1 / Scale: the n-th cell of
\* a ramp that starts below 0 and, on a grid of a few cells, ends above 1
Ramp(b, n) == (b + n) * (Scale \div 4) - Scale \div 4

\* a plausible slip: e * 255.0 is rounded to the nearest integer
IntensityRounded(e) ==
    IF e < 0 THEN 0
    ELSE IF e > Scale THEN 255
    ELSE (e * 255 + Scale \div 2) \div Scale

\* (if *e < 0.0 { 0.0 } else if *e > 1.0 { 1.0 } else { *e } * 255.0) as u8,
\* e in units of 1 / Scale; the cast truncates
Intensity(e) ==
    IF e < 0 THEN 0
    ELSE IF e > Scale THEN 255
    ELSE (e * 255) \div Scale

RECURSIVE PushRow(_, _, _, _)
\* for e in row.iter() { ...; texture_data.push(v); (four times) }, from
\* column j of row r on
PushRow(texture_data, m, r, j) ==
    IF j >= m.cols THEN texture_data
    ELSE LET byte == Intensity(m.cell[<<r, j>>])
         IN  PushRow(texture_data \o <<byte, byte, byte, byte>>, m, r, j + 1)

RECURSIVE PushRows(_, _, _)
\* for row in u.outer_iter() { ... }, from row r on
PushRows(texture_data, m, r) ==
    IF r >= m.rows THEN texture_data
    ELSE PushRows(PushRow(texture_data, m, r, 0), m, r + 1)

\* fn make_texture_image(u: &Matrix<f32>) -> RawImage2d<u8>:
\* RawImage2d::from_raw_rgba(texture_data, (u.shape()[0], u.shape()[1])),
\* the pair being (width, height)
make_texture_image(m) ==
    [data |-> PushRows(<<>>, m, 0), width |-> m.rows, height |-> m.cols]

\* draw_loop(self, state, f, k, update_fn) up to `loop`
LoopInit ==
    /\ RollIdle
    /\ MainIdle
    /\ ModeBIdle
    /\ \E r \in Dims, c \in Dims, b \in 0 .. MaxBase :
          \/ state = << Matrix(r, c, [x \in Ix(r), y \in Ix(c) |-> b]), Matrix(r, c, [x \in Ix(r), y \in Ix(c) |-> 0]) >>
          \/ state = << Matrix(r, c, [x \in Ix(r), y \in Ix(c) |-> Ramp(b, x * c + y)]),
                        Matrix(r, c, [x \in Ix(r), y \in Ix(c) |-> 0]) >>
    /\ window_status = "Open"
    /\ loopPc = "check"
    /\ calls = <<>>
    /\ image = NoImage
    /\ polled = <<>>

\* a plausible slip: the loop has no exit
LoopNeverBreaks == FALSE

\* if window_status == WindowStatus::Close { break; }
LoopBreaks == window_status = "Close"

\* loop { if ... { break; } ... } Ok(())
LoopCheck ==
    /\ loopPc = "check"
    /\ LoopBreaks \/ Len(calls) < 3 * MaxIter
    /\ loopPc' = IF LoopBreaks THEN "ok" ELSE "update"
    /\ UNCHANGED <<state, window_status, calls, image, polled>>
    /\ UNCHANGED <<rollVars, mainVars, modeBVars>>

\* update_fn(&mut state, f, k);
LoopUpdate ==
    /\ loopPc = "update"
    /\ state' \in UpdateResults(state)
    /\ calls' = Append(calls, "update")
    /\ loopPc' = "draw"
    /\ UNCHANGED <<window_status, image, polled>>
    /\ UNCHANGED <<rollVars, mainVars, modeBVars>>

\* a plausible slip: the result of draw is dropped (let _ = self.draw(..))
AfterDrawIgnored(drawn) == "poll"

\* where draw_loop goes on after self.draw(&state.0)?
AfterDraw(drawn) == IF drawn THEN "poll" ELSE "err"

\* self.draw(&state.0)?: the image is made from state.0, then the texture,
\* the draw or the finish may fail
LoopDraw ==
    /\ loopPc = "draw"
    /\ image' = make_texture_image(state[1])
    /\ \E drawn \in BOOLEAN :
          /\ calls' = Append(calls, IF drawn THEN "draw:Ok" ELSE "draw:Err")
          /\ loopPc' = AfterDraw(drawn)
    /\ UNCHANGED <<state, window_status, polled>>
    /\ UNCHANGED <<rollVars, mainVars, modeBVars>>

\* window_status = self.hadling_event();
LoopPoll ==
    /\ loopPc = "poll"
    /\ \E events \in EventBatches :
          /\ window_status' = hadling_event(events)
          /\ polled' = events
          /\ calls' = Append(calls, IF window_status' = "Close"
                                    THEN "poll:Close" ELSE "poll:Open")
    /\ loopPc' = "check"
    /\ UNCHANGED <<state, image>>
    /\ UNCHANGED <<rollVars, mainVars, modeBVars>>

LoopNext == LoopCheck \/ LoopUpdate \/ LoopDraw \/ LoopPoll

SpecDrawLoop == LoopInit /\ [][LoopNext]_vars

\* ------------------------------------------------------------ draw_loop, claims
\* the call the n-th entry of `calls` is expected to be
CallKind(n) ==
    IF n % 3 = 1 THEN {"update"}
    ELSE IF n % 3 = 2 THEN {"draw:Ok", "draw:Err"}
    ELSE {"poll:Open", "poll:Close"}

\* C3: every iteration of draw_loop calls update_fn once, then draw, then
\* hadling_event, in that order, the first poll coming after an update and a
\* draw; the loop ends only after a Close or a failed draw; after a Close no
\* further call is made and draw_loop returns Ok(()).
C3_DrawLoopOrder ==
    /\ \A n \in 1 .. Len(calls) : calls[n] \in CallKind(n)
    /\ \A n \in 1 .. Len(calls) : calls[n] = "poll:Close" => n = Len(calls)
    /\ loopPc \in {"ok", "err"} =>
          (calls # <<>> /\ calls[Len(calls)] \in {"poll:Close", "draw:Err"})
    /\ (calls # <<>> /\ calls[Len(calls)] = "poll:Close") => loopPc \in {"check", "ok"}
    /\ loopPc = "ok" <=> (window_status = "Close" /\ loopPc # "check")

\* the loop went through an Open poll, then a Close one, and returned Ok(())
C3_Witness ==
    /\ loopPc = "ok"
    /\ calls = <<"update", "draw:Ok", "poll:Open", "update", "draw:Ok", "poll:Close">>

\* C4: when draw fails in an iteration of draw_loop, draw_loop returns the
\* error at once: no draw, update_fn or hadling_event call follows it.
C4_DrawErrorPropagates ==
    /\ \A n \in 1 .. Len(calls) : calls[n] = "draw:Err" => n = Len(calls)
    /\ (calls # <<>> /\ calls[Len(calls)] = "draw:Err") => loopPc = "err"
    /\ loopPc = "err" => (calls # <<>> /\ calls[Len(calls)] = "draw:Err")

\* the draw of the second iteration failed and draw_loop returned the error
C4_Witness ==
    /\ loopPc = "err"
    /\ calls = <<"update", "draw:Ok", "poll:Open", "update", "draw:Err">>

\* C10: a grid with fewer than 2 cells along an axis is rejected before the
\* loop runs: update_fn, draw and hadling_event are never called on one.
C10_SmallGridRejected ==
    calls # <<>> => (state[1].rows >= 2 /\ state[1].cols >= 2)

\* ------------------------------------------------------------ make_texture_image, claims
\* the first of the four bytes of cell p in the data of img, the cells taken
\* in row-major order over rows of `cols` cells
ByteOf(img, cols, p) == img.data[4 * (p[1] * cols + p[2]) + 1]

\* C13: the image draw makes from state.0 holds 4 * rows * cols bytes, all in
\* 0 .. 255; the four bytes of cell (r, c) are equal and stand at positions
\* 4 * (r * cols + c) + 1 .. 4; a cell below 0 gives 0, a cell above 1 gives
\* 255, a cell e in [0, 1] gives the integer part of e * 255; a larger cell
\* never gives a smaller byte; and state.0 is left as it was.
C13_ClampedRowMajorImage ==
    [][ (loopPc = "draw" /\ loopPc' # "draw") =>
          LET m == state[1]
          IN  /\ state' = state
              /\ Len(image'.data) = 4 * m.rows * m.cols
              /\ \A p \in DOMAIN m.cell :
                    LET e == m.cell[p]
                        byte == ByteOf(image', m.cols, p)
                    IN  /\ byte \in 0 .. 255
                        /\ \A k \in 1 .. 3 :
                              image'.data[4 * (p[1] * m.cols + p[2]) + 1 + k] = byte
                        /\ e < 0 => byte = 0
                        /\ e > Scale => byte = 255
                        /\ (e >= 0 /\ e <= Scale) =>
                              (byte * Scale <= e * 255 /\ e * 255 < (byte + 1) * Scale)
              /\ \A p, q \in DOMAIN m.cell :
                    m.cell[p] <= m.cell[q] =>
                       ByteOf(image', m.cols, p) <= ByteOf(image', m.cols, q)
      ]_vars

\* the image of a 2 x 3 matrix has been made: its first cell is below 0, its
\* second holds 1 / Scale, its last is above 1; the 24 bytes start with four
\* 0s and four times the integer part of 255 / Scale and end with four 255s
C13_Witness ==
    /\ loopPc = "poll"
    /\ state[1].rows = 2 /\ state[1].cols = 3
    /\ state[1].cell[<<0, 0>>] < 0
    /\ state[1].cell[<<0, 1>>] = 1
    /\ state[1].cell[<<1, 2>>] > Scale
    /\ Len(image.data) = 24
    /\ SubSeq(image.data, 1, 8) =
          <<0, 0, 0, 0, 255 \div Scale, 255 \div Scale, 255 \div Scale, 255 \div Scale>>
    /\ SubSeq(image.data, 21, 24) = <<255, 255, 255, 255>>

\* C15: the image made from a matrix of R rows and C columns is declared
\* with width C and height R.
C15_WidthIsColumns ==
    image # NoImage => (image.width = state[1].cols /\ image.height = state[1].rows)

\* ------------------------------------------------------------ hadling_event, claims
\* the events that close the window
Closing == {"CloseRequested", "ModW"}

\* C14: the status a call of hadling_event returns is Close exactly when one
\* of the events it polled is a CloseRequested or a W with the modifier;
\* once an event of the call has set Close, the events after it leave it
\* Close; a call that polls only W without the modifier returns Open.
C14_CloseIffClosingEvent ==
    /\ window_status = "Close" <=> \E k \in 1 .. Len(polled) : polled[k] \in Closing
    /\ \A n \in 0 .. Len(polled) : \A k \in n .. Len(polled) :
          hadling_event(SubSeq(polled, 1, n)) = "Close" =>
             hadling_event(SubSeq(polled, 1, k)) = "Close"
    /\ (\A k \in 1 .. Len(polled) : polled[k] = "W") => window_status = "Open"

\* a call polled a W with the modifier and then another event, and returned
\* Close
C14_Witness ==
    /\ polled = <<"ModW", "Other">>
    /\ window_status = "Close"
    /\ calls # <<>> /\ calls[Len(calls)] = "poll:Close"

\* ------------------------------------------------------------ Mode B
\* Concurrent stepping as spec.md sections 4.4 and 5 describe it: a stepper
\* and a consumer share the pair (u, v) behind one lock.  Each field of the
\* pair carries the generation (batch counter) of the write that produced it.

\* a plausible slip: the pair is not guarded, both sides enter at will
CanAcquireUnguarded == TRUE

\* the lock can be taken
CanAcquire == lock = "none"

ModeBInit ==
    /\ RollIdle
    /\ MainIdle
    /\ LoopIdle
    /\ lock = "none"
    /\ shared = [u |-> 0, v |-> 0]
    /\ stepperPc = "acquire"
    /\ generation = 0
    /\ consumerPc = "acquire"
    /\ snapshot = [u |-> 0, v |-> 0]

\* the stepper has finished a batch and takes the lock
StepperAcquire ==
    /\ stepperPc = "acquire"
    /\ generation < MaxGeneration
    /\ CanAcquire
    /\ lock' = "stepper"
    /\ generation' = generation + 1
    /\ stepperPc' = "write_u"
    /\ UNCHANGED <<shared, consumerPc, snapshot>>
    /\ UNCHANGED <<rollVars, mainVars, loopVars>>

StepperWriteU ==
    /\ stepperPc = "write_u"
    /\ shared' = [shared EXCEPT !.u = generation]
    /\ stepperPc' = "write_v"
    /\ UNCHANGED <<lock, generation, consumerPc, snapshot>>
    /\ UNCHANGED <<rollVars, mainVars, loopVars>>

StepperWriteV ==
    /\ stepperPc = "write_v"
    /\ shared' = [shared EXCEPT !.v = generation]
    /\ stepperPc' = "release"
    /\ UNCHANGED <<lock, generation, consumerPc, snapshot>>
    /\ UNCHANGED <<rollVars, mainVars, loopVars>>

StepperRelease ==
    /\ stepperPc = "release"
    /\ lock' = "none"
    /\ stepperPc' = "acquire"
    /\ UNCHANGED <<shared, generation, consumerPc, snapshot>>
    /\ UNCHANGED <<rollVars, mainVars, loopVars>>

\* once per frame the consumer takes the lock
ConsumerAcquire ==
    /\ consumerPc = "acquire"
    /\ CanAcquire
    /\ lock' = "consumer"
    /\ consumerPc' = "read_u"
    /\ UNCHANGED <<shared, stepperPc, generation, snapshot>>
    /\ UNCHANGED <<rollVars, mainVars, loopVars>>

ConsumerReadU ==
    /\ consumerPc = "read_u"
    /\ snapshot' = [snapshot EXCEPT !.u = shared.u]
    /\ consumerPc' = "read_v"
    /\ UNCHANGED <<lock, shared, stepperPc, generation>>
    /\ UNCHANGED <<rollVars, mainVars, loopVars>>

ConsumerReadV ==
    /\ consumerPc = "read_v"
    /\ snapshot' = [snapshot EXCEPT !.v = shared.v]
    /\ consumerPc' = "release"
    /\ UNCHANGED <<lock, shared, stepperPc, generation>>
    /\ UNCHANGED <<rollVars, mainVars, loopVars>>

ConsumerRelease ==
    /\ consumerPc = "release"
    /\ lock' = "none"
    /\ consumerPc' = "render"
    /\ UNCHANGED <<shared, stepperPc, generation, snapshot>>
    /\ UNCHANGED <<rollVars, mainVars, loopVars>>

\* the frame is rendered from the snapshot, outside the lock
ConsumerRender ==
    /\ consumerPc = "render"
    /\ consumerPc' = "acquire"
    /\ UNCHANGED <<lock, shared, stepperPc, generation, snapshot>>
    /\ UNCHANGED <<rollVars, mainVars, loopVars>>

ModeBNext ==
    \/ StepperAcquire \/ StepperWriteU \/ StepperWriteV \/ StepperRelease
    \/ ConsumerAcquire \/ ConsumerReadU \/ ConsumerReadV \/ ConsumerRelease
    \/ ConsumerRender

SpecModeB == ModeBInit /\ [][ModeBNext]_vars

\* ------------------------------------------------------------ Mode B, claims
StepperInside == stepperPc \in {"write_u", "write_v", "release"}
ConsumerInside == consumerPc \in {"read_u", "read_v", "release"}

\* C1: every snapshot the consumer has read holds u and v of the same
\* generation, and the stepper and the consumer are never inside the critical
\* section together.
C1_SnapshotSameGeneration ==
    /\ consumerPc # "read_v" => snapshot.u = snapshot.v
    /\ ~(StepperInside /\ ConsumerInside)

\* the consumer, inside the critical section, has read a pair of generation 2
\* while the stepper is outside it
C1_Witness ==
    /\ consumerPc = "release" /\ snapshot = [u |-> 2, v |-> 2]
    /\ stepperPc = "acquire" /\ generation = 2

====
